---- MODULE Spec2Model ----
(***************************************************************************)
(* Model of examples/python/cancellation/server.py: the cancellable hash   *)
(* search (HashFinder.Find / HashFinder.FindRange over _find_secret and    *)
(* _find_secret_of_length) and its stop_event.                             *)
(*                                                                         *)
(* One worker thread (max_workers=1, maximum_concurrent_rpcs=1) runs the   *)
(* handler, the driver generator and the enumerator generator, so a single *)
(* program counter pc follows the thread through the three frames; the     *)
(* completion callbacks on_rpc_done run on another thread and interleave   *)
(* with every worker step.                                                 *)
(*                                                                         *)
(* `raise StopIteration()` inside a generator is modelled as it behaves on *)
(* the interpreters the file targets (it imports from __future__ for       *)
(* Python 2 compatibility): it ends the generator.                         *)
(*                                                                         *)
(* hashlib.sha1 is replaced by a deterministic salted stub digest of fixed *)
(* length HashLen; the salt is drawn once, so the digest of a secret is    *)
(* stable for the life of the server.                                      *)
(***************************************************************************)
EXTENDS Integers, Sequences, FiniteSets, TLC

\* ------------------------------------------------------------------ bounds
\* Largest byte value of a secret (the source's _BYTE_MAX is 255).
ByteMax == 1
\* Longest secret length the driver is followed to while the flag is unset.
MaxLen == 2
\* Length of an encoded digest (28 for base64 of SHA-1).
HashLen == 2
\* Largest ideal / interesting hamming distance a request carries.
MaxThreshold == 1
\* Number of calls the single worker serves one after the other.
MaxCalls == 2

\* ------------------------------------------------------------------ values
\* Python's None / an optional value: <<>> is None, <<x>> is the value x.
None == <<>>

Some(x) == <<x>>

_BYTE_MAX == ByteMax

Calls == 1..MaxCalls

\* Characters an encoded digest is made of (upper and lower case occur).
HashChars == <<"a", "B", "c">>

Salts == 0..(HashLen + 1)

\* desired_name of a request: "", "a", "ab", "aba", ...
TargetOfLen(n) == [i \in 1..n |-> IF i % 2 = 1 THEN "a" ELSE "b"]

Targets == {TargetOfLen(n) : n \in (HashLen - 1)..(HashLen + 1)}

Thresholds == 0..MaxThreshold

\* hash_name_pb2.HashNameResponse() with every field at its default.
EmptyResponse == [secret |-> <<>>, hashed_name |-> <<>>, hamming_distance |-> 0]

\* ------------------------------------------------------------------ helpers
\* str.lower() on one character.
Lower(c) == IF c = "A" THEN "a" ELSE IF c = "B" THEN "b" ELSE IF c = "C" THEN "c" ELSE c

RECURSIVE CountMismatch(_, _, _)
CountMismatch(a, b, i) ==
    IF i > Len(a) THEN 0
    ELSE (IF Lower(a[i]) # Lower(b[i]) THEN 1 ELSE 0) + CountMismatch(a, b, i + 1)

\* _get_hamming_distance(a, b), for len(a) = len(b).
_get_hamming_distance(a, b) == CountMismatch(a, b, 1)

Min(S) == CHOOSE x \in S : \A y \in S : x <= y

\* The two assertions of _get_substring_hamming_distance.
SubstringPrecondition(candidate, target) ==
    Len(target) <= Len(candidate) /\ Len(candidate) # 0

\* _get_substring_hamming_distance(candidate, target), preconditions holding.
_get_substring_hamming_distance(candidate, target) ==
    Min({_get_hamming_distance(SubSeq(candidate, i + 1, i + Len(target)), target) :
            i \in 0..(Len(candidate) - Len(target))})

RECURSIVE Power(_, _)
Power(b, e) == IF e = 0 THEN 1 ELSE b * Power(b, e - 1)

RECURSIVE BigEndian(_, _)
\* The digits read as one base-(_BYTE_MAX+1) number, most significant first.
BigEndian(ds, n) ==
    IF n = 0 THEN 0 ELSE BigEndian(ds, n - 1) * (_BYTE_MAX + 1) + ds[n]

\* struct.pack('B', i) for each digit, joined: the secret is the byte string.
PackSecret(ds) == ds

\* Mutant of _get_hash: the digest is not of one fixed length, every other
\* code is written one character short.
_get_hash_Unpadded(secret, s) ==
    LET code == BigEndian(secret, Len(secret)) + Len(secret) + s
    IN  [i \in 1..(HashLen - (code % 2)) |->
            HashChars[((code \div Power(Len(HashChars), i - 1)) % Len(HashChars)) + 1]]

\* Stub of _get_hash: a salted code of the secret written in the digest's
\* characters, always HashLen characters long.
_get_hash(secret, s) ==
    LET code == BigEndian(secret, Len(secret)) + Len(secret) + s
    IN  [i \in 1..HashLen |->
            HashChars[((code \div Power(Len(HashChars), i - 1)) % Len(HashChars)) + 1]]

\* base64.b64encode(secret): one symbol of the base64 alphabet per byte value.
B64Symbols == <<"A", "B", "C", "D">>

b64encode(secret) == [i \in 1..Len(secret) |-> B64Symbols[(secret[i] % Len(B64Symbols)) + 1]]

\* The HashNameResponse built at lines 97-99 and 103-105.
HashNameResponse(secret, h, d) ==
    [secret |-> b64encode(secret), hashed_name |-> h, hamming_distance |-> d]

RECURSIVE Carry_OffByOne(_, _)
\* Mutant of Carry: a digit wraps on reaching _BYTE_MAX, not on passing it.
Carry_OffByOne(ds, i) ==
    IF ds[i] = _BYTE_MAX
    THEN LET cleared == [ds EXCEPT ![i] = 0]
         IN  IF i - 1 = 0
             THEN [digits |-> cleared, exhausted |-> TRUE]
             ELSE Carry_OffByOne([cleared EXCEPT ![i - 1] = @ + 1], i - 1)
    ELSE [digits |-> ds, exhausted |-> FALSE]

RECURSIVE Carry(_, _)
\* The carry loop of lines 110-118 over 1-based positions; i = 0 is Python's -1.
Carry(ds, i) ==
    IF ds[i] = _BYTE_MAX + 1
    THEN LET cleared == [ds EXCEPT ![i] = 0]
         IN  IF i - 1 = 0
             THEN [digits |-> cleared, exhausted |-> TRUE]
             ELSE Carry([cleared EXCEPT ![i - 1] = @ + 1], i - 1)
    ELSE [digits |-> ds, exhausted |-> FALSE]

\* Lines 108-118: increment the last digit and propagate the carry.
Increment(ds) == Carry([ds EXCEPT ![Len(ds)] = @ + 1], Len(ds))

\* Mutant of Branch: the comparison with the ideal distance the wrong way round.
Branch_Inverted(d, ideal, interesting) ==
    IF interesting # None /\ d <= interesting[1] THEN "interesting"
    ELSE IF d >= ideal THEN "ideal"
    ELSE "neither"

\* Which branch of lines 95-107 a distance takes.
Branch(d, ideal, interesting) ==
    IF interesting # None /\ d <= interesting[1] THEN "interesting"
    ELSE IF d <= ideal THEN "ideal"
    ELSE "neither"

\* Mutant of MarkerOf: the exhausted enumerator yields the None sentinel too.
MarkerOf_AlwaysSentinel(o) == "sentinel"

\* What the enumerator's consumer sees when a run ends with the given outcome:
\* the None sentinel (lines 90 and 106) or the plain end of the generator
\* (line 116).
MarkerOf(o) ==
    IF o = "cancelled" THEN "sentinel"
    ELSE IF o = "found" THEN "sentinel"
    ELSE "stop_iteration"

\* Mutant of FindReply: the test of line 147 inverted away, the empty response
\* is returned whatever was collected.
FindReply_Empty(cs) == EmptyResponse

\* Lines 147-149: the reply of Find.
FindReply(cs) == IF cs = <<>> THEN EmptyResponse ELSE cs[Len(cs)]

\* ------------------------------------------------------------------ state
VARIABLES
    salt,             \* the stub digest's salt
    call,             \* the call the worker is serving
    stop_event,       \* stop_event of each call: is it set
    method,           \* "Find" or "FindRange"
    target,           \* request.desired_name
    ideal_distance,   \* request.ideal_hamming_distance
    interesting_hamming_distance, \* None (Find) or request.interesting_hamming_distance
    pc,               \* where the worker thread is
    length,           \* _find_secret's length
    digits,           \* _find_secret_of_length's digits
    hash,             \* _find_secret_of_length's hash
    distance,         \* _find_secret_of_length's distance
    suspended,        \* the yield the enumerator is suspended at
    item,             \* the value the running generator handed to its consumer
    candidates,       \* Find: the list being built at line 145
    stream,           \* FindRange: the responses yielded to the consumer
    reply,            \* Find: the returned response; FindRange: <<>>
    evaluated,        \* history: secrets evaluated by this call, in order
    emitted,          \* history: responses yielded by the enumerators of this call
    outcome,          \* history: how the latest enumerator run ended
    marker,           \* history: terminal signals the latest run gave its consumer
    driver_end,       \* history: why the driver ended
    evals_after_set,  \* history: evaluations completed after the flag was set
    emits_after_set,  \* history: responses the enumerator yielded after the flag was set
    sent_after_set,   \* history: responses delivered after the flag was set
    ideal_at,         \* history: position in evaluated of the first candidate within ideal
    set_at_start      \* history: was the flag set when the latest enumerator run started

vars == <<salt, call, stop_event, method, target, ideal_distance,
          interesting_hamming_distance, pc, length, digits, hash, distance,
          suspended, item, candidates, stream, reply, evaluated, emitted,
          outcome, marker, driver_end, evals_after_set, emits_after_set,
          sent_after_set, ideal_at, set_at_start>>

request_vars == <<method, target, ideal_distance, interesting_hamming_distance>>

history_vars == <<evaluated, emitted, outcome, marker, driver_end,
                  evals_after_set, emits_after_set, sent_after_set, ideal_at,
                  set_at_start>>

\* Mutant of is_set: one event shared by every call instead of one per call.
is_set_shared == \E c \in Calls : stop_event[c]

\* Mutant of is_set: the worker reads an event the callback never sets.
is_set_never == FALSE

\* stop_event.is_set() for the call being served.
is_set == stop_event[call]

\* The state a handler starts from: lines 140-145 / 153-161, and line 122.
StartCall(m, t, ideal, interesting) ==
    /\ method' = m
    /\ target' = t
    /\ ideal_distance' = ideal
    /\ interesting_hamming_distance' = interesting
    /\ pc' = "drv_loop"
    /\ length' = 1
    /\ digits' = <<>>
    /\ hash' = <<>>
    /\ distance' = 0
    /\ suspended' = "no"
    /\ item' = None
    /\ candidates' = <<>>
    /\ stream' = <<>>
    /\ reply' = None
    /\ evaluated' = <<>>
    /\ emitted' = <<>>
    /\ outcome' = "none"
    /\ marker' = <<>>
    /\ driver_end' = "running"
    /\ evals_after_set' = 0
    /\ emits_after_set' = 0
    /\ sent_after_set' = 0
    /\ ideal_at' = 0
    /\ set_at_start' = FALSE

Init ==
    /\ salt \in Salts
    /\ call = 1
    /\ stop_event = [c \in Calls |-> FALSE]
    /\ method \in {"Find", "FindRange"}
    /\ target \in Targets
    /\ ideal_distance \in Thresholds
    /\ interesting_hamming_distance \in
          IF method = "Find" THEN {None} ELSE {Some(n) : n \in Thresholds}
    /\ pc = "drv_loop"
    /\ length = 1
    /\ digits = <<>>
    /\ hash = <<>>
    /\ distance = 0
    /\ suspended = "no"
    /\ item = None
    /\ candidates = <<>>
    /\ stream = <<>>
    /\ reply = None
    /\ evaluated = <<>>
    /\ emitted = <<>>
    /\ outcome = "none"
    /\ marker = <<>>
    /\ driver_end = "running"
    /\ evals_after_set = 0
    /\ emits_after_set = 0
    /\ sent_after_set = 0
    /\ ideal_at = 0
    /\ set_at_start = FALSE

\* ------------------------------------------------------------------ worker
\* _find_secret lines 123-125: the driver starts the enumerator for `length`
\* (line 85: digits = [0] * length). Lengths beyond MaxLen are followed only
\* once the flag is set.
DriverStartLength ==
    /\ pc = "drv_loop"
    /\ set_at_start' = stop_event[call]
    /\ length <= MaxLen \/ is_set
    /\ digits' = [i \in 1..length |-> 0]
    /\ outcome' = "running"
    /\ marker' = <<>>
    /\ suspended' = "no"
    /\ pc' = "enum_check"
    /\ UNCHANGED <<salt, call, stop_event, request_vars, length, hash, distance,
                   item, candidates, stream, reply, evaluated, emitted, driver_end,
                   evals_after_set, emits_after_set, sent_after_set, ideal_at>>

\* Mutant of EnumCheckStop: the check made at the end of the loop body, so not
\* before the first candidate of a length.
EnumCheckStop_AfterFirst ==
    /\ pc = "enum_check"
    /\ UNCHANGED set_at_start
    /\ IF is_set /\ digits # [i \in 1..length |-> 0]
       THEN /\ item' = None
            /\ suspended' = "cancel_sentinel"
            /\ outcome' = "cancelled"
            /\ marker' = Append(marker, MarkerOf("cancelled"))
            /\ pc' = "drv_recv"
       ELSE /\ pc' = "enum_eval"
            /\ UNCHANGED <<item, suspended, outcome, marker>>
    /\ UNCHANGED <<salt, call, stop_event, request_vars, length, digits, hash,
                   distance, candidates, stream, reply, evaluated, emitted,
                   driver_end, evals_after_set, emits_after_set, sent_after_set,
                   ideal_at>>

\* Mutant of EnumCheckStop: the check hoisted out of the while loop, made only
\* before the first candidate of a length.
EnumCheckStop_Hoisted ==
    /\ pc = "enum_check"
    /\ UNCHANGED set_at_start
    /\ IF is_set /\ digits = [i \in 1..length |-> 0]
       THEN /\ item' = None
            /\ suspended' = "cancel_sentinel"
            /\ outcome' = "cancelled"
            /\ marker' = Append(marker, MarkerOf("cancelled"))
            /\ pc' = "drv_recv"
       ELSE /\ pc' = "enum_eval"
            /\ UNCHANGED <<item, suspended, outcome, marker>>
    /\ UNCHANGED <<salt, call, stop_event, request_vars, length, digits, hash,
                   distance, candidates, stream, reply, evaluated, emitted,
                   driver_end, evals_after_set, emits_after_set, sent_after_set,
                   ideal_at>>

\* _find_secret_of_length lines 87-91: the cancellation check before a candidate.
EnumCheckStop ==
    /\ pc = "enum_check"
    /\ UNCHANGED set_at_start
    /\ IF is_set
       THEN /\ item' = None
            /\ suspended' = "cancel_sentinel"
            /\ outcome' = "cancelled"
            /\ marker' = Append(marker, MarkerOf("cancelled"))
            /\ pc' = "drv_recv"
       ELSE /\ pc' = "enum_eval"
            /\ UNCHANGED <<item, suspended, outcome, marker>>
    /\ UNCHANGED <<salt, call, stop_event, request_vars, length, digits, hash,
                   distance, candidates, stream, reply, evaluated, emitted,
                   driver_end, evals_after_set, emits_after_set, sent_after_set,
                   ideal_at>>

\* _find_secret_of_length lines 92-94: build the secret, hash it, measure it.
\* A failed assertion of _get_substring_hamming_distance propagates through
\* the enumerator, the driver and the handler.
EnumEvaluate ==
    /\ pc = "enum_eval"
    /\ UNCHANGED set_at_start
    /\ LET secret == PackSecret(digits)
           h == _get_hash(secret, salt)
       IN  /\ hash' = h
           /\ IF SubstringPrecondition(h, target)
              THEN LET d == _get_substring_hamming_distance(h, target)
                   IN  /\ distance' = d
                       /\ evaluated' = Append(evaluated, secret)
                       /\ evals_after_set' = evals_after_set + (IF stop_event[call] THEN 1 ELSE 0)
                       /\ ideal_at' = IF ideal_at = 0 /\ d <= ideal_distance
                                      THEN Len(evaluated) + 1 ELSE ideal_at
                       /\ pc' = "enum_branch"
                       /\ UNCHANGED <<outcome, driver_end>>
              ELSE /\ pc' = "failed"
                   /\ outcome' = "error"
                   /\ driver_end' = "error"
                   /\ UNCHANGED <<distance, evaluated, evals_after_set, ideal_at>>
    /\ UNCHANGED <<salt, call, stop_event, request_vars, length, digits, suspended,
                   item, candidates, stream, reply, emitted, marker,
                   emits_after_set, sent_after_set>>

\* _find_secret_of_length lines 95-107: yield the candidate or go on.
EnumBranch ==
    /\ pc = "enum_branch"
    /\ UNCHANGED set_at_start
    /\ LET b == Branch(distance, ideal_distance, interesting_hamming_distance)
           response == HashNameResponse(PackSecret(digits), hash, distance)
       IN  IF b = "neither"
           THEN /\ pc' = "enum_advance"
                /\ UNCHANGED <<item, suspended, emitted, emits_after_set>>
           ELSE /\ item' = Some(response)
                /\ suspended' = b
                /\ emitted' = Append(emitted, response)
                /\ emits_after_set' = emits_after_set + (IF stop_event[call] THEN 1 ELSE 0)
                /\ pc' = "drv_recv"
    /\ UNCHANGED <<salt, call, stop_event, request_vars, length, digits, hash,
                   distance, candidates, stream, reply, evaluated, outcome, marker,
                   driver_end, evals_after_set, sent_after_set, ideal_at>>

\* Mutant of DriverReceive: the flag is read before the candidate is yielded
\* on, so a candidate taken with the flag set is withheld.
DriverReceive_ChecksFirst ==
    /\ pc = "drv_recv"
    /\ UNCHANGED set_at_start
    /\ IF item # None /\ ~is_set
       THEN /\ pc' = "hdl_recv"
            /\ UNCHANGED driver_end
       ELSE /\ driver_end' = IF item = None THEN "sentinel" ELSE "stopped"
            /\ pc' = "hdl_end"
    /\ UNCHANGED <<salt, call, stop_event, request_vars, length, digits, hash,
                   distance, suspended, item, candidates, stream, reply, evaluated,
                   emitted, outcome, marker, evals_after_set, emits_after_set,
                   sent_after_set, ideal_at>>

\* _find_secret lines 125-129: the driver takes the enumerator's item; a
\* candidate is yielded on, the None sentinel ends the driver.
DriverReceive ==
    /\ pc = "drv_recv"
    /\ UNCHANGED set_at_start
    /\ IF item # None
       THEN /\ pc' = "hdl_recv"
            /\ UNCHANGED driver_end
       ELSE /\ driver_end' = "sentinel"
            /\ pc' = "hdl_end"
    /\ UNCHANGED <<salt, call, stop_event, request_vars, length, digits, hash,
                   distance, suspended, item, candidates, stream, reply, evaluated,
                   emitted, outcome, marker, evals_after_set, emits_after_set,
                   sent_after_set, ideal_at>>

\* Find line 145 (list() takes the candidate) / FindRange lines 162-163 (the
\* candidate is yielded to the consumer).
HandlerReceive ==
    /\ pc = "hdl_recv"
    /\ UNCHANGED set_at_start
    /\ IF method = "Find"
       THEN /\ candidates' = Append(candidates, item[1])
            /\ UNCHANGED <<stream, sent_after_set>>
       ELSE /\ stream' = Append(stream, item[1])
            /\ sent_after_set' = sent_after_set + (IF stop_event[call] THEN 1 ELSE 0)
            /\ UNCHANGED candidates
    /\ pc' = "drv_after_yield"
    /\ UNCHANGED <<salt, call, stop_event, request_vars, length, digits, hash,
                   distance, suspended, item, reply, evaluated, emitted, outcome,
                   marker, driver_end, evals_after_set, emits_after_set, ideal_at>>

\* _find_secret lines 130-132: resumed after its yield, the driver reads the
\* flag; set, it ends and leaves the enumerator suspended.
DriverAfterYield ==
    /\ pc = "drv_after_yield"
    /\ UNCHANGED set_at_start
    /\ IF is_set
       THEN /\ driver_end' = "stopped"
            /\ outcome' = "abandoned"
            /\ pc' = "hdl_end"
       ELSE /\ pc' = "enum_resume"
            /\ UNCHANGED <<driver_end, outcome>>
    /\ UNCHANGED <<salt, call, stop_event, request_vars, length, digits, hash,
                   distance, suspended, item, candidates, stream, reply, evaluated,
                   emitted, marker, evals_after_set, emits_after_set,
                   sent_after_set, ideal_at>>

\* Mutant of EnumResume: `if` in place of `elif` at line 100, so a candidate
\* yielded as interesting is tested against the ideal distance as well.
EnumResume_FallsThrough ==
    /\ pc = "enum_resume"
    /\ UNCHANGED set_at_start
    /\ IF suspended = "ideal"
       THEN /\ item' = None
            /\ suspended' = "found_sentinel"
            /\ outcome' = "found"
            /\ marker' = Append(marker, MarkerOf("found"))
            /\ pc' = "drv_recv"
            /\ UNCHANGED <<emitted, emits_after_set>>
       ELSE IF distance <= ideal_distance
       THEN /\ item' = Some(HashNameResponse(PackSecret(digits), hash, distance))
            /\ suspended' = "ideal"
            /\ emitted' = Append(emitted, HashNameResponse(PackSecret(digits), hash, distance))
            /\ emits_after_set' = emits_after_set + (IF stop_event[call] THEN 1 ELSE 0)
            /\ pc' = "drv_recv"
            /\ UNCHANGED <<outcome, marker>>
       ELSE /\ suspended' = "no"
            /\ pc' = "enum_advance"
            /\ UNCHANGED <<item, outcome, marker, emitted, emits_after_set>>
    /\ UNCHANGED <<salt, call, stop_event, request_vars, length, digits, hash,
                   distance, candidates, stream, reply, evaluated,
                   driver_end, evals_after_set, sent_after_set, ideal_at>>

\* _find_secret_of_length resumed after a yield: from line 99 on to line 108,
\* from line 105 on to the sentinel of line 106.
EnumResume ==
    /\ pc = "enum_resume"
    /\ UNCHANGED set_at_start
    /\ IF suspended = "ideal"
       THEN /\ item' = None
            /\ suspended' = "found_sentinel"
            /\ outcome' = "found"
            /\ marker' = Append(marker, MarkerOf("found"))
            /\ pc' = "drv_recv"
       ELSE /\ suspended' = "no"
            /\ pc' = "enum_advance"
            /\ UNCHANGED <<item, outcome, marker>>
    /\ UNCHANGED <<salt, call, stop_event, request_vars, length, digits, hash,
                   distance, candidates, stream, reply, evaluated, emitted,
                   driver_end, evals_after_set, emits_after_set, sent_after_set,
                   ideal_at>>

\* _find_secret_of_length lines 108-118: next counter value, or the end of the
\* generator when the carry runs off the most significant digit.
EnumAdvance ==
    /\ pc = "enum_advance"
    /\ UNCHANGED set_at_start
    /\ LET r == Increment(digits)
       IN  /\ digits' = r.digits
           /\ IF r.exhausted
              THEN /\ outcome' = "exhausted"
                   /\ marker' = Append(marker, MarkerOf("exhausted"))
                   /\ pc' = "drv_exhausted"
              ELSE /\ pc' = "enum_check"
                   /\ UNCHANGED <<outcome, marker>>
    /\ UNCHANGED <<salt, call, stop_event, request_vars, length, hash, distance,
                   suspended, item, candidates, stream, reply, evaluated, emitted,
                   driver_end, evals_after_set, emits_after_set, sent_after_set,
                   ideal_at>>

\* Mutant of DriverNextLength: the driver ends when a length is exhausted.
DriverNextLength_Ends ==
    /\ pc = "drv_exhausted"
    /\ UNCHANGED set_at_start
    /\ driver_end' = "exhausted"
    /\ pc' = "hdl_end"
    /\ UNCHANGED <<salt, call, stop_event, request_vars, length, digits, hash,
                   distance, suspended, item, candidates, stream, reply, evaluated,
                   emitted, outcome, marker, evals_after_set, emits_after_set,
                   sent_after_set, ideal_at>>

\* Mutant of DriverNextLength: the length grows by two.
DriverNextLength_Skips ==
    /\ pc = "drv_exhausted"
    /\ UNCHANGED set_at_start
    /\ length' = length + 2
    /\ pc' = "drv_loop"
    /\ UNCHANGED <<salt, call, stop_event, request_vars, digits, hash, distance,
                   suspended, item, candidates, stream, reply, evaluated, emitted,
                   outcome, marker, driver_end, evals_after_set, emits_after_set,
                   sent_after_set, ideal_at>>

\* _find_secret lines 133-134: the for loop ended without a sentinel.
DriverNextLength ==
    /\ pc = "drv_exhausted"
    /\ UNCHANGED set_at_start
    /\ length' = length + 1
    /\ pc' = "drv_loop"
    /\ UNCHANGED <<salt, call, stop_event, request_vars, digits, hash, distance,
                   suspended, item, candidates, stream, reply, evaluated, emitted,
                   outcome, marker, driver_end, evals_after_set, emits_after_set,
                   sent_after_set, ideal_at>>

\* Find lines 146-149 / FindRange line 164: the driver has ended.
HandlerEnd ==
    /\ pc = "hdl_end"
    /\ UNCHANGED set_at_start
    /\ reply' = IF method = "Find" THEN Some(FindReply(candidates)) ELSE None
    /\ pc' = "returned"
    /\ UNCHANGED <<salt, call, stop_event, request_vars, length, digits, hash,
                   distance, suspended, item, candidates, stream, evaluated, emitted,
                   outcome, marker, driver_end, evals_after_set, emits_after_set,
                   sent_after_set, ideal_at>>

\* ------------------------------------------------------------------ callbacks
\* Mutant of on_rpc_done: the callback flips the event instead of setting it.
on_rpc_done_Toggles(c) ==
    /\ c <= call
    /\ stop_event' = [stop_event EXCEPT ![c] = ~@]
    /\ UNCHANGED <<salt, call, request_vars, pc, length, digits, hash, distance,
                   suspended, item, candidates, stream, reply, history_vars>>

\* on_rpc_done (lines 141-143 / 154-156) of call c, registered at lines 144 /
\* 157 when the call started; it may run at any time from then on.
on_rpc_done(c) ==
    /\ c <= call
    /\ stop_event' = [stop_event EXCEPT ![c] = TRUE]
    /\ UNCHANGED <<salt, call, request_vars, pc, length, digits, hash, distance,
                   suspended, item, candidates, stream, reply, history_vars>>

\* The worker is free again and takes the next call: lines 140 / 153 create a
\* new threading.Event for it.
NewCall ==
    /\ pc \in {"returned", "failed"}
    /\ call < MaxCalls
    /\ call' = call + 1
    /\ \E m \in {"Find", "FindRange"}, t \in Targets, ideal \in Thresholds :
         \E interesting \in IF m = "Find" THEN {None} ELSE {Some(n) : n \in Thresholds} :
            StartCall(m, t, ideal, interesting)
    /\ UNCHANGED <<salt, stop_event>>

Worker ==
    \/ DriverStartLength
    \/ EnumCheckStop
    \/ EnumEvaluate
    \/ EnumBranch
    \/ DriverReceive
    \/ HandlerReceive
    \/ DriverAfterYield
    \/ EnumResume
    \/ EnumAdvance
    \/ DriverNextLength
    \/ HandlerEnd

Next ==
    \/ Worker
    \/ \E c \in Calls : on_rpc_done(c)
    \/ NewCall

Spec == Init /\ [][Next]_vars

\* One call from its start on: the worker's steps and the callbacks.
OneCall ==
    \/ Worker
    \/ \E c \in Calls : on_rpc_done(c)

\* A single call served by a worker thread that keeps running while it has a
\* step to take.
SpecLive == Init /\ [][OneCall]_vars /\ WF_vars(Worker)

\* ------------------------------------------------------------------ claims
Exited == pc \in {"returned", "failed"}

\* C1 (as claimed): once an evaluated candidate has distance <= ideal_distance
\* the search evaluates no further candidate, whatever interesting distance
\* the request carries.
C1_IdealEndsSearch == ideal_at # 0 => Len(evaluated) = ideal_at

\* C2 (as claimed): for a Find call, once the flag is set the handler
\* eventually returns, whatever the target.
C2_SetLeadsToReturn == (method = "Find" /\ stop_event[call]) ~> (pc = "returned")

\* C2 apart from the assertion error: for a Find call, once the flag is set the
\* worker is eventually released, and the handler returns whenever the target
\* is no longer than a digest.
C2_SetLeadsToRelease ==
    /\ (method = "Find" /\ stop_event[call]) ~> Exited
    /\ (method = "Find" /\ stop_event[call] /\ Len(target) <= HashLen) ~> (pc = "returned")

\* C2 witness: a cancelled Find has returned although no candidate ever
\* reached the ideal distance.
C2_Witness ==
    /\ method = "Find"
    /\ stop_event[call]
    /\ pc = "returned"
    /\ ideal_at = 0
    /\ evaluated # <<>>

\* C3: after the flag is set, the call completes at most one candidate
\* evaluation.
C3_OneEvaluationAfterSet == evals_after_set <= 1

\* C3 witness: the flag was set between the check and the evaluation, that one
\* evaluation completed, and every layer has exited.
C3_Witness == evals_after_set = 1 /\ pc = "returned"

\* C4 (as claimed): in FindRange no response is delivered to the consumer, or
\* yielded by the enumerator, once the flag is set.
C4_NothingAfterSet ==
    method = "FindRange" => (sent_after_set = 0 /\ emits_after_set = 0)

\* C4 (amended): in FindRange at most one response is yielded by the
\* enumerator, and at most one delivered to the consumer, once the flag is set,
\* and a delivery after the flag means the driver goes no further.
C4_AtMostOneAfterSet ==
    method = "FindRange" =>
        /\ sent_after_set <= 1
        /\ emits_after_set <= 1
        /\ sent_after_set = 1 => pc \in {"drv_after_yield", "hdl_end", "returned"}

\* C4 witness: a FindRange call delivered a response after its flag was set
\* and then ended.
C4_Witness == method = "FindRange" /\ sent_after_set = 1 /\ pc = "returned"

Last(seq) == seq[Len(seq)]

\* C5: Find replies only once the driver has ended, with the last response the
\* enumerators yielded in the call, or the empty response if they yielded none.
C5_FindRepliesLast ==
    method = "Find" =>
        /\ reply # None => (pc = "returned" /\ driver_end \in {"sentinel", "stopped"})
        /\ pc = "returned" =>
              reply = Some(IF emitted = <<>> THEN EmptyResponse ELSE Last(emitted))

\* C5 witness: the flag was set before the first candidate was evaluated and
\* Find replied with the empty response.
C5_Witness ==
    /\ method = "Find"
    /\ pc = "returned"
    /\ evaluated = <<>>
    /\ reply = Some(EmptyResponse)

\* A Find that replied with a response an enumerator yielded.
C5_WitnessMatch ==
    /\ method = "Find"
    /\ pc = "returned"
    /\ emitted # <<>>
    /\ reply = Some(Last(emitted))

IsPrefix(a, b) == Len(a) <= Len(b) /\ SubSeq(b, 1, Len(a)) = a

\* C6: in FindRange the responses delivered are exactly the responses the
\* enumerators yielded, once each and in order; at most the one response in
\* flight is not delivered yet, none is left when the stream has ended, and the
\* stream ends exactly when the driver has ended.
C6_StreamIsEmitted ==
    method = "FindRange" =>
        /\ IsPrefix(stream, emitted)
        /\ Len(emitted) - Len(stream) <= 1
        /\ Len(emitted) > Len(stream) => pc \in {"drv_recv", "hdl_recv"}
        /\ pc = "returned" => (stream = emitted /\ driver_end \in {"sentinel", "stopped"})
        /\ driver_end \in {"sentinel", "stopped"} => pc \in {"hdl_end", "returned"}

\* C6 witness: a response yielded after the flag was set was delivered, and
\* the ended stream holds every response yielded.
C6_Witness ==
    /\ method = "FindRange"
    /\ pc = "returned"
    /\ emits_after_set = 1
    /\ Len(stream) >= 2
    /\ stream = emitted

Outcomes == {"exhausted", "cancelled", "found"}

\* C7 (as claimed): a run of the enumerator that has ended gave exactly one
\* terminal marker, and no other outcome is signalled by that marker.
C7_MarkerTellsOutcome ==
    outcome \notin {"none", "running"} =>
        /\ Len(marker) = 1
        /\ \A o \in Outcomes \ {outcome} : MarkerOf(o) # marker[1]

\* C7 (amended): a run the enumerator itself ends gives exactly one terminal
\* signal: the None sentinel when cancelled and when the ideal match was found,
\* the plain end of the generator when exhausted; the signal tells exhausted
\* from the other two only. A run that has not ended, or that the driver or an
\* assertion error ended, gave no terminal signal.
C7_MarkerTellsExhausted ==
    /\ outcome \in Outcomes =>
          /\ Len(marker) = 1
          /\ marker[1] = "stop_iteration" <=> outcome = "exhausted"
          /\ marker[1] = "sentinel" <=> outcome \in {"cancelled", "found"}
    /\ outcome \notin Outcomes => marker = <<>>

\* C7 witness: a run ended as found, another outcome (cancelled) having the
\* same marker.
C7_Witness ==
    /\ outcome = "found"
    /\ marker = <<"sentinel">>
    /\ MarkerOf("cancelled") = marker[1]

EvaluatedOfLength(n) == Cardinality({i \in 1..Len(evaluated) : Len(evaluated[i]) = n})

\* C9: the driver starts at length 1 and a step of a call leaves the length or
\* adds exactly 1 to it; secrets are evaluated in non-decreasing length, none
\* longer than the driver's length, and every secret of each shorter length
\* has been evaluated.
C9_LengthProgression ==
    /\ [](pc = "drv_loop" /\ evaluated = <<>> => length = 1)
    /\ [](\A i \in 1..Len(evaluated) :
            /\ Len(evaluated[i]) <= length
            /\ i > 1 => Len(evaluated[i - 1]) <= Len(evaluated[i]))
    /\ [](\A n \in 1..(length - 1) : EvaluatedOfLength(n) = Power(_BYTE_MAX + 1, n))
    /\ [][call' = call => length' \in {length, length + 1}]_vars

\* C9 witness: a secret of length 2 is being evaluated after every secret of
\* length 1.
C9_Witness ==
    /\ length = 2
    /\ EvaluatedOfLength(1) = Power(_BYTE_MAX + 1, 1)
    /\ EvaluatedOfLength(2) >= 1

\* C10: the flag of a call is a latch only its on_rpc_done writes: unset until
\* the call starts, never cleared, changed by no step but on_rpc_done of that
\* call, and a second on_rpc_done changes nothing at all.
C10_FlagIsLatch ==
    /\ [](\A c \in Calls : c > call => ~stop_event[c])
    /\ [][\A c \in Calls :
            /\ stop_event[c] => stop_event'[c]
            /\ stop_event'[c] # stop_event[c] => on_rpc_done(c)
            /\ (on_rpc_done(c) /\ stop_event[c]) => UNCHANGED vars]_vars

\* C10 witness: the flag of an earlier call is still set while the next call
\* runs with its own flag unset.
C10_Witness ==
    /\ call = 2
    /\ stop_event[1]
    /\ ~stop_event[2]
    /\ pc = "enum_eval"

call_vars == <<request_vars, pc, length, digits, hash, distance, suspended, item,
               candidates, stream, reply, history_vars>>

\* C11: the flag of another call never touches the call being served: a step
\* that sets another call's flag changes nothing else, the search of a call is
\* cancelled (by the enumerator's check or the driver's) only with that call's
\* own flag set, and a call that returns with its own flag unset ran to a
\* candidate within the ideal distance and the sentinel after it.
C11_CallIsolation ==
    /\ [](outcome = "cancelled" => stop_event[call])
    /\ [](driver_end = "stopped" => stop_event[call])
    /\ []((pc = "returned" /\ ~stop_event[call]) =>
             (outcome = "found" /\ driver_end = "sentinel" /\ distance <= ideal_distance))
    /\ [][\A c \in Calls :
            (c # call /\ stop_event'[c] # stop_event[c]) =>
                (call' = call /\ salt' = salt /\ UNCHANGED call_vars)]_vars

\* C11 witness: the second call, its own flag unset, evaluated several
\* candidates and returned on its ideal match although the first call's flag
\* is set.
C11_Witness ==
    /\ call = 2
    /\ stop_event[1]
    /\ ~stop_event[2]
    /\ pc = "returned"
    /\ outcome = "found"
    /\ Len(evaluated) >= 2

\* The terminal states of a call, by what ended its search.
Completed == Exited /\ driver_end = "sentinel" /\ outcome = "found"

Cancelled ==
    /\ Exited
    /\ \/ driver_end = "sentinel" /\ outcome = "cancelled"
       \/ driver_end = "stopped"

Failed == pc = "failed" /\ driver_end = "error"

\* C12 (as claimed): a call that has ended is in exactly one of Completed and
\* Cancelled, Cancelled only with its flag set, and an ended call changes no
\* more: no state of it, no further response.
C12_CompletedOrCancelled ==
    /\ [](Exited => ((Completed \/ Cancelled) /\ ~(Completed /\ Cancelled)))
    /\ [](Cancelled => stop_event[call])
    /\ [][(Exited /\ call' = call) => UNCHANGED call_vars]_vars

\* C12 apart from the assertion error: a call that has ended is in exactly one
\* of Completed, Cancelled and Failed, and changes no more.
C12_ThreeTerminalStates ==
    /\ [](Exited =>
            /\ Completed \/ Cancelled \/ Failed
            /\ ~(Completed /\ Cancelled)
            /\ ~(Completed /\ Failed)
            /\ ~(Cancelled /\ Failed))
    /\ [](~Exited => ~(Completed \/ Cancelled \/ Failed))
    /\ [](Cancelled => stop_event[call])
    /\ [][(Exited /\ call' = call) => UNCHANGED call_vars]_vars

\* C13 (as claimed): the enumerator is only ever run with a length that is at
\* least the target's, and the assertions of the distance never fail.
C13_LengthCoversTarget ==
    /\ pc \in {"enum_check", "enum_eval", "enum_branch", "enum_advance"} =>
          length >= Len(target)
    /\ pc # "failed"

\* The assertion error alone: it is reached exactly for a target longer than a
\* digest, whatever length the driver is at.
C13_FailsOnlyOnLongTarget ==
    /\ pc = "failed" => (Len(target) > HashLen /\ length = 1)
    /\ (Len(target) > HashLen /\ pc \in {"enum_branch", "enum_advance", "drv_recv"}) =>
          outcome = "cancelled"

\* C14: a failed assertion of the distance ends the call at once and leaves no
\* partial result: the step that evaluates a candidate whose digest is shorter
\* than the target (or empty) ends in the failure, the failed call has
\* evaluated no candidate, emitted and delivered no response and made no
\* reply, and it never changes again.
C14_FailureWithoutPartialResult ==
    /\ [](pc = "failed" =>
            /\ ~SubstringPrecondition(hash, target)
            /\ evaluated = <<>>
            /\ emitted = <<>>
            /\ stream = <<>>
            /\ candidates = <<>>
            /\ reply = None)
    /\ [][(/\ pc = "enum_eval"
           /\ ~SubstringPrecondition(_get_hash(PackSecret(digits), salt), target)
           /\ pc' # pc) => pc' = "failed"]_vars
    /\ [][(pc = "failed" /\ call' = call) => UNCHANGED call_vars]_vars

\* C14 witness: a call failed on a target longer than the digest.
C14_Witness ==
    /\ pc = "failed"
    /\ Len(target) > Len(hash)
    /\ hash # <<>>

\* Position of evaluated[i] among the evaluated secrets of its own length.
RankInLength(i) ==
    Cardinality({j \in 1..i : Len(evaluated[j]) = Len(evaluated[i])})

\* C15: within a length the secrets are evaluated in strictly ascending
\* big-endian order from all-zero, each once (the k-th evaluated secret of a
\* length is the number k - 1, its digits within 0.._BYTE_MAX); the run ends as
\* exhausted exactly on the step after the all-_BYTE_MAX secret, when all
\* (_BYTE_MAX + 1)^L secrets of the length have been evaluated.
C15_AscendingExactlyOnce ==
    /\ [](\A i \in 1..Len(evaluated) :
            /\ \A k \in 1..Len(evaluated[i]) : evaluated[i][k] \in 0.._BYTE_MAX
            /\ BigEndian(evaluated[i], Len(evaluated[i])) = RankInLength(i) - 1)
    /\ [](pc = "drv_exhausted" =>
            /\ EvaluatedOfLength(length) = Power(_BYTE_MAX + 1, length)
            /\ Last(evaluated) = [k \in 1..length |-> _BYTE_MAX])
    /\ [][(pc = "enum_advance" /\ pc' # pc) =>
             (pc' = "drv_exhausted" <=> digits = [k \in 1..length |-> _BYTE_MAX])]_vars

\* C15 witness: with the flag unset and no candidate within the ideal distance
\* the run for length 2 has just ended as exhausted.
C15_Witness ==
    /\ ~stop_event[call]
    /\ ideal_at = 0
    /\ pc = "drv_exhausted"
    /\ length = 2
    /\ EvaluatedOfLength(2) = Power(_BYTE_MAX + 1, 2)

\* C16: an enumerator run that started with the flag set evaluates no
\* candidate of its length and yields no response, ends as cancelled at its
\* first check, and the driver then ends on the sentinel without going on to
\* the next length.
C16_SetAtStartCancels ==
    set_at_start =>
        /\ stop_event[call]
        /\ EvaluatedOfLength(length) = 0
        /\ \A i \in 1..Len(emitted) : Len(emitted[i].secret) # length
        /\ digits = [k \in 1..length |-> 0]
        /\ pc \in {"enum_check", "drv_recv", "hdl_end", "returned"}
        /\ pc = "enum_check" => outcome = "running"
        /\ pc # "enum_check" => (outcome = "cancelled" /\ item = None)
        /\ pc \in {"hdl_end", "returned"} => driver_end = "sentinel"

\* C16 witness: the flag was set while an earlier length was under way without
\* a response; the run for length 2 started with it set and the call returned.
C16_Witness ==
    /\ set_at_start
    /\ length = 2
    /\ pc = "returned"
    /\ EvaluatedOfLength(1) = Power(_BYTE_MAX + 1, 1)

\* The distance of a secret from the call's target, as line 93-94 compute it.
DistanceOf(secret) == _get_substring_hamming_distance(_get_hash(secret, salt), target)

\* The response that carries a secret, its digest and its distance.
ResponseOf(secret) ==
    [secret |-> b64encode(secret),
     hashed_name |-> _get_hash(secret, salt),
     hamming_distance |-> DistanceOf(secret)]

SeqRange(seq) == {seq[i] : i \in 1..Len(seq)}

\* Every response that has left the enumerator, the driver or a handler.
Outputs ==
    SeqRange(emitted) \cup SeqRange(stream) \cup SeqRange(candidates) \cup SeqRange(item)
        \cup (SeqRange(reply) \ {EmptyResponse})

\* C17: every response put out by the enumerator, the driver or a handler
\* carries the secret, digest and distance of an evaluated candidate, and that
\* distance is within the ideal distance or within a configured interesting
\* distance.
C17_OutputsWithinThreshold ==
    \A m \in Outputs :
        /\ \E i \in 1..Len(evaluated) : m = ResponseOf(evaluated[i])
        /\ \/ m.hamming_distance <= ideal_distance
           \/ /\ interesting_hamming_distance # None
              /\ m.hamming_distance <= interesting_hamming_distance[1]

\* C17 witness: a candidate beyond both thresholds was evaluated and passed
\* over, and a later one within the interesting distance only was delivered.
C17_Witness ==
    /\ method = "FindRange"
    /\ Len(evaluated) >= 2
    /\ DistanceOf(evaluated[1]) > ideal_distance
    /\ DistanceOf(evaluated[1]) > interesting_hamming_distance[1]
    /\ stream # <<>>
    /\ Last(stream).hamming_distance > ideal_distance

\* C18: no secret appears twice among the responses of a call: the responses
\* the enumerators yielded, those streamed and those collected carry pairwise
\* different secrets, and there are no more of them than evaluated candidates.
C18_OneResponsePerCandidate ==
    /\ \A i, j \in 1..Len(emitted) : i # j => emitted[i].secret # emitted[j].secret
    /\ \A i, j \in 1..Len(stream) : i # j => stream[i].secret # stream[j].secret
    /\ \A i, j \in 1..Len(candidates) : i # j => candidates[i].secret # candidates[j].secret
    /\ Len(emitted) <= Len(evaluated)

\* C18 witness: a candidate within both the interesting and the ideal distance
\* was yielded once and the enumerator has gone on to the next candidate.
C18_Witness ==
    /\ interesting_hamming_distance # None
    /\ Len(evaluated) = 2
    /\ pc = "enum_branch"
    /\ emitted = <<ResponseOf(evaluated[1])>>
    /\ DistanceOf(evaluated[1]) <= ideal_distance
    /\ DistanceOf(evaluated[1]) <= interesting_hamming_distance[1]

\* C19: in Find the enumerators yield at most one response per call, and it is
\* that of the last evaluated candidate, the first within the ideal distance;
\* a returned Find replies with it if there is one, and otherwise, the flag
\* having stopped the search, with the empty response.
C19_FindRepliesFirstIdeal ==
    method = "Find" =>
        /\ Len(emitted) <= 1
        /\ \A i \in 1..(Len(evaluated) - 1) : DistanceOf(evaluated[i]) > ideal_distance
        /\ emitted # <<>> =>
              /\ emitted[1] = ResponseOf(Last(evaluated))
              /\ DistanceOf(Last(evaluated)) <= ideal_distance
        /\ pc = "returned" =>
              /\ reply # Some(EmptyResponse) <=>
                    (evaluated # <<>> /\ DistanceOf(Last(evaluated)) <= ideal_distance)
              /\ reply # Some(EmptyResponse) => reply = Some(ResponseOf(Last(evaluated)))
              /\ reply = Some(EmptyResponse) => (stop_event[call] /\ outcome = "cancelled")

\* C19 witness: a Find passed over a candidate beyond the ideal distance and
\* replied with the first one within it.
C19_Witness ==
    /\ method = "Find"
    /\ pc = "returned"
    /\ Len(evaluated) >= 2
    /\ reply = Some(ResponseOf(Last(evaluated)))

\* A cancelled Find that replied with the empty response after evaluating.
C19_WitnessEmpty ==
    /\ method = "Find"
    /\ pc = "returned"
    /\ evaluated # <<>>
    /\ reply = Some(EmptyResponse)

====
